---- MODULE Spec2Model ----
(***************************************************************************)
(* Model of the SafeAssist / RIFD retrieval engine (rag_service.py and     *)
(* pipeline_bootstrap.py as documented in the RAG optimisation report):    *)
(* the per-turn embedding cache, the single-index search _search_vec, the  *)
(* fan-out search_combined, and deduplicate_snippets.                      *)
(*                                                                         *)
(* Scores and similarities are integers in hundredths (0.25 is 25).        *)
(***************************************************************************)
EXTENDS Integers, Sequences, FiniteSets, TLC

(* ------------------------------ bounds -------------------------------- *)
\* number of threads that may call _embed (agents / search callers)
NumCallers == 2
\* number of router_node executions (turn starts) per conversation
MaxTurns == 2
\* number of _embed calls started per conversation, turn and text
MaxCalls == 3

Callers == 1..NumCallers
Convs == 1..NumCallers

(* ----------------------- texts, hashing, encoder ---------------------- *)
Texts == {"t1", "t2"}

\* hashlib.md5(text.encode("utf-8")).hexdigest(): distinct digests for the
\* distinct texts of the model
MD5(t) == CASE t = "t1" -> "d41d8c" [] t = "t2" -> "9e107d"

Keys == {MD5(t) : t \in Texts}

\* model.encode(text): the external encoder, deterministic per text
Encode(t) == CASE t = "t1" -> <<3, 4>> [] t = "t2" -> <<0, 10>>

RECURSIVE ISqrtFrom(_, _)
ISqrtFrom(n, r) == IF (r + 1) * (r + 1) > n THEN r ELSE ISqrtFrom(n, r + 1)

\* faiss.normalize_L2: scale to unit norm (unit = 100)
NormalizeL2(v) ==
    LET n == ISqrtFrom(v[1] * v[1] + v[2] * v[2], 0)
    IN  IF n = 0 THEN v ELSE <<(v[1] * 100) \div n, (v[2] * 100) \div n>>

NoVec == <<>>

(* ------------------------------ state --------------------------------- *)
VARIABLES
    cache,      \* self._embed_cache: digest -> normalized vector (NoVec = absent)
    pc,         \* position of each caller inside _embed
    txt,        \* the text each caller is embedding
    vec,        \* the vector a caller has computed and not yet stored
    convOf,     \* the conversation each caller serves
    turns,      \* router_node executions per conversation
    calls,      \* _embed calls started, per conversation (this turn) and text
    outcomes,   \* per conversation and text: "miss"/"hit" of the calls completed this turn
    rets,       \* per conversation and text: the vectors returned this turn
    encTurn,    \* per conversation and text: encoder invocations this turn
    encTotal,   \* per text: encoder invocations since construction
    encAtClear, \* per conversation and text: encTotal at the conversation's last clear
    wasCached,  \* per conversation: the digests cached just before its last clear
    fresh,      \* per digest: the conversations in whose current turn the
                \* cached entry was written
    midClear,   \* per conversation: "no", "cleared" (the cache was cleared
                \* after an _embed call of its current turn) or "embedded"
                \* (and an _embed call of the same turn came after that)
    hitOld,     \* per conversation: an _embed call of it has hit an entry
                \* written before its turn began
    indexes,    \* the loaded FAISS indexes: name -> [metric, sims], sims[i] the
                \* cosine similarity to the query of the vector with id i - 1
    rk,         \* _search_vec: the k of the last call
    rname,      \* _search_vec: the index of the last call
    rres,       \* _search_vec: the result of the last call
    rcalls,     \* _search_vec: calls made
    rpool,      \* _search_vec: the candidates the call fetched from FAISS
    req,        \* search_combined: [q, idxs, k] of the call
    scPc,       \* search_combined: "idle", "fanout" or "done"
    task,       \* search_combined: state of the task of each requested index
    taskRes,    \* search_combined: result list of each finished task
    doneOrder,  \* search_combined: the tasks in their order of completion
    output,     \* search_combined: the returned list
    warnings,   \* search_combined: the indexes a warning was printed for
    scEmbeds,   \* search_combined: _embed calls made by the call and its tasks
    scEnc,      \* search_combined: encoder invocations made by the call
    scCount,    \* search_combined: calls completed
    outputsSeen,\* the outputs of the completed calls
    dIn,        \* deduplicate_snippets: the snippets passed in
    dMax,       \* deduplicate_snippets: max_chars
    dOut,       \* deduplicate_snippets: the returned list
    dDone,      \* "none", "dedup" (called directly) or "agent" (called by
                \* _get_therapist_rag_snippets)
    kText,      \* dynamic_k: the text of the call
    kWords,     \* dynamic_k: the number of words the text was written with
    kRisk,      \* dynamic_k: risk_score (hundredths)
    kRes,       \* dynamic_k: the returned k
    kDone,      \* dynamic_k: called
    ldVecs,     \* collection load: the source text of each vector of the
                \* index file, by id
    ldMeta,     \* collection load: the source text of each record of the
                \* metadata file, by position
    ldState,    \* collection load: "none" or "loaded"
    ldHit,      \* the last result served from the collection
    ls,         \* browser: localStorage, key -> value or Null
    wpage,      \* browser: the page whose DOMContentLoaded handler ran last
    wloc,       \* browser: what that page assigned to window.location.href
    wreqs,      \* browser: the API requests that page issued
    whandlers,  \* browser: the click / submit handlers that page registered
    wLoggedOut, \* browser: the logout handler has run
    wvisits     \* browser: pages loaded so far

cacheVars == <<cache, pc, txt, vec, convOf, turns, calls, outcomes, rets,
               encTurn, encTotal, encAtClear, wasCached, fresh, midClear,
               hitOld>>

retrVars == <<indexes, rk, rname, rres, rcalls, rpool>>

fanVars == <<req, scPc, task, taskRes, doneOrder, output, warnings, scEmbeds,
             scEnc, scCount, outputsSeen>>

dedupVars == <<dIn, dMax, dOut, dDone>>

kVars == <<kText, kWords, kRisk, kRes, kDone>>

ldVars == <<ldVecs, ldMeta, ldState, ldHit>>

webVars == <<ls, wpage, wloc, wreqs, whandlers, wLoggedOut, wvisits>>

auxVars == <<kVars, ldVars, webVars>>

\* what a dynamic_k call and a collection load leave alone
exceptK == <<cacheVars, retrVars, fanVars, dedupVars, ldVars, webVars>>

exceptLd == <<cacheVars, retrVars, fanVars, dedupVars, kVars, webVars>>

\* what the browser pages leave alone
exceptWeb == <<cacheVars, retrVars, fanVars, dedupVars, kVars, ldVars>>

ragVars == <<cacheVars, retrVars, fanVars, dedupVars>>

vars == <<ragVars, auxVars>>

EmptyCache == [k \in Keys |-> NoVec]

CacheHas(k) == cache[k] # NoVec

CachedKeys == {k \in Keys : CacheHas(k)}

ConvCallers(v) == {c \in Callers : convOf[c] = v}

AllIdle == \A c \in Callers : pc[c] = "idle"

(* --------------------------- RagPipeline._embed ----------------------- *)
\* a store that loses the entry
StoreEntryDropped(k, v) == cache

\* self._embed_cache[key] = vec
StoreEntry(k, v) == [cache EXCEPT ![k] = v]

\* a lookup that never finds the entry
LookupNever(k) == NoVec

\* self._embed_cache.get(key), under self._cache_lock
Lookup(k) == cache[k]

\* conversation v has called _embed in its current turn
HasEmbedded(v) == \E t \in Texts : calls[v][t] > 0

\* an _embed call after the cache was cleared in the middle of the turn
AfterEmbed(m) == IF m = "cleared" THEN "embedded" ELSE m

\* _embed(text), cache hit: "return cached vector if exists"
EmbedHit(c, t) ==
    LET v == convOf[c]
        k == MD5(t)
    IN  /\ pc[c] = "idle"
        /\ turns[v] >= 1
        /\ calls[v][t] < MaxCalls
        /\ Lookup(k) # NoVec
        /\ calls' = [calls EXCEPT ![v][t] = @ + 1]
        /\ outcomes' = [outcomes EXCEPT ![v][t] = Append(@, "hit")]
        /\ rets' = [rets EXCEPT ![v][t] = @ \cup {Lookup(k)}]
        /\ midClear' = [midClear EXCEPT ![v] = AfterEmbed(@)]
        /\ hitOld' = [hitOld EXCEPT ![v] = @ \/ v \notin fresh[k]]
        /\ UNCHANGED <<cache, pc, txt, vec, convOf, turns, encTurn, encTotal,
                       encAtClear, wasCached, fresh, retrVars, fanVars,
                       dedupVars, auxVars>>

\* _embed(text), cache miss: the caller goes on to encode
EmbedMiss(c, t) ==
    LET v == convOf[c]
        k == MD5(t)
    IN  /\ pc[c] = "idle"
        /\ turns[v] >= 1
        /\ calls[v][t] < MaxCalls
        /\ Lookup(k) = NoVec
        /\ calls' = [calls EXCEPT ![v][t] = @ + 1]
        /\ pc' = [pc EXCEPT ![c] = "encode"]
        /\ txt' = [txt EXCEPT ![c] = t]
        /\ midClear' = [midClear EXCEPT ![v] = AfterEmbed(@)]
        /\ UNCHANGED <<cache, vec, convOf, turns, outcomes, rets, encTurn,
                       encTotal, encAtClear, wasCached, fresh, hitOld,
                       retrVars, fanVars, dedupVars, auxVars>>

\* "otherwise encode + normalize": model.encode then faiss.normalize_L2
EmbedEncode(c) ==
    LET v == convOf[c]
        t == txt[c]
    IN  /\ pc[c] = "encode"
        /\ vec' = [vec EXCEPT ![c] = NormalizeL2(Encode(t))]
        /\ encTurn' = [encTurn EXCEPT ![v][t] = @ + 1]
        /\ encTotal' = [encTotal EXCEPT ![t] = @ + 1]
        /\ pc' = [pc EXCEPT ![c] = "store"]
        /\ UNCHANGED <<cache, txt, convOf, turns, calls, outcomes, rets,
                       encAtClear, wasCached, fresh, midClear, hitOld,
                       retrVars, fanVars, dedupVars, auxVars>>

\* "+ store", under self._cache_lock, then return the vector
EmbedStore(c) ==
    LET v == convOf[c]
        t == txt[c]
    IN  /\ pc[c] = "store"
        /\ cache' = StoreEntry(MD5(t), vec[c])
        /\ outcomes' = [outcomes EXCEPT ![v][t] = Append(@, "miss")]
        /\ rets' = [rets EXCEPT ![v][t] = @ \cup {vec[c]}]
        /\ pc' = [pc EXCEPT ![c] = "idle"]
        /\ vec' = [vec EXCEPT ![c] = NoVec]
        /\ fresh' = [fresh EXCEPT ![MD5(t)] = Convs]
        /\ UNCHANGED <<txt, convOf, turns, calls, encTurn, encTotal,
                       encAtClear, wasCached, midClear, hitOld, retrVars,
                       fanVars, dedupVars, auxVars>>

(* ------------------- clear_turn_cache and router_node ----------------- *)
\* a clear that leaves the dict as it is
ClearTurnCacheNoop == cache

\* clear_turn_cache(): "Clears the cache dict"
ClearTurnCache == EmptyCache

\* router_node of conversation v, the first node of a turn: it calls
\* rag_pipeline_instance.clear_turn_cache() on the one shared instance
RouterNode(v) ==
    /\ turns[v] < MaxTurns
    /\ \A c \in ConvCallers(v) : pc[c] = "idle"
    /\ cache' = ClearTurnCache
    /\ turns' = [turns EXCEPT ![v] = @ + 1]
    /\ calls' = [calls EXCEPT ![v] = [t \in Texts |-> 0]]
    /\ outcomes' = [outcomes EXCEPT ![v] = [t \in Texts |-> <<>>]]
    /\ rets' = [rets EXCEPT ![v] = [t \in Texts |-> {}]]
    /\ encTurn' = [encTurn EXCEPT ![v] = [t \in Texts |-> 0]]
    /\ encAtClear' = [encAtClear EXCEPT ![v] = encTotal]
    /\ wasCached' = [wasCached EXCEPT ![v] = CachedKeys]
    /\ fresh' = [k \in Keys |-> IF cache'[k] = NoVec THEN {} ELSE fresh[k] \ {v}]
    /\ midClear' = [u \in Convs |->
                      IF u = v THEN "no"
                      ELSE IF midClear[u] = "no" /\ HasEmbedded(u) THEN "cleared"
                      ELSE midClear[u]]
    /\ UNCHANGED <<pc, txt, vec, convOf, encTotal, hitOld, retrVars, fanVars,
                   dedupVars, auxVars>>

(* ----------------------- indexes and _search_vec ---------------------- *)
\* largest index of the single-index specification
MaxIndexSize == 4
\* largest k of a search
MaxK == 2

KnownIndexes == {"therapy", "therapist"}

\* a name no index is loaded under
UnknownIndex == "nosuch"

IndexNames == KnownIndexes \cup {UnknownIndex}

\* cosine similarities (hundredths) the vectors of an index have to the query
SimValues == {20, 25, 30, 60, 90}

\* _IP_THRESHOLD = 0.25: minimum cosine score for IP-based indexes
IP_THRESHOLD == 25

\* _L2_THRESHOLD = 1.50: maximum L2 distance for L2-based indexes
L2_THRESHOLD == 150

\* what FAISS reports for a stored unit vector with cosine sim to the unit
\* query: IndexFlatIP the inner product, IndexFlatL2 the squared distance
\* 2 - 2 cos
RawValue(metric, sim) == IF metric = "IP" THEN sim ELSE 200 - 2 * sim

\* the slot FAISS fills in when the index has fewer vectors than asked for
PadSlot(metric) ==
    [id |-> -1, raw |-> IF metric = "IP" THEN -1000000 ELSE 1000000]

\* a is a better match than b under the metric
Better(metric, a, b) == IF metric = "IP" THEN a.raw > b.raw ELSE a.raw < b.raw

RECURSIVE InsertCand(_, _, _)
InsertCand(metric, x, s) ==
    IF s = <<>> THEN <<x>>
    ELSE IF Better(metric, x, Head(s)) THEN <<x>> \o s
    ELSE <<Head(s)>> \o InsertCand(metric, x, Tail(s))

RECURSIVE RankCands(_, _, _)
RankCands(metric, cands, acc) ==
    IF cands = <<>> THEN acc
    ELSE RankCands(metric, Tail(cands), InsertCand(metric, Head(cands), acc))

RECURSIVE Pads(_, _)
Pads(metric, n) == IF n <= 0 THEN <<>> ELSE <<PadSlot(metric)>> \o Pads(metric, n - 1)

\* index.search(vec, count): the count best matches, best first, padded
TopCandidates(ix, count) ==
    LET n == Len(ix.sims)
        all == [i \in 1..n |-> [id |-> i - 1, raw |-> RawValue(ix.metric, ix.sims[i])]]
        ranked == RankCands(ix.metric, all, <<>>)
    IN  IF n >= count THEN SubSeq(ranked, 1, count)
        ELSE ranked \o Pads(ix.metric, count - n)

\* a filter that lets the threshold itself through
PassesInclusive(metric, raw) ==
    IF metric = "IP" THEN raw >= IP_THRESHOLD ELSE raw <= L2_THRESHOLD

\* the relevance filter: score > 0.25 on IP, distance < 1.50 on L2
Passes(metric, raw) ==
    IF metric = "IP" THEN raw > IP_THRESHOLD ELSE raw < L2_THRESHOLD

\* a score that is what FAISS reported, distance or not
ScoreRaw(metric, raw) == raw

\* the similarity reported for a hit, on the one scale (higher = closer)
ScoreOf(metric, raw) == IF metric = "IP" THEN raw ELSE (200 - raw) \div 2

RECURSIVE FilterTake(_, _, _, _)
FilterTake(name, metric, cands, k) ==
    IF cands = <<>> \/ k <= 0 THEN <<>>
    ELSE IF Head(cands).id >= 0 /\ Passes(metric, Head(cands).raw)
         THEN <<[name |-> name, id |-> Head(cands).id,
                 score |-> ScoreOf(metric, Head(cands).raw)]>>
              \o FilterTake(name, metric, Tail(cands), k - 1)
         ELSE FilterTake(name, metric, Tail(cands), k)

\* a fetch of k candidates only
PoolSizeK(k) == k

\* "fetches 3 x k candidates from FAISS"
PoolSize(k) == 3 * k

\* _search_vec(vec, k, index, metadata, name): fetch 3 x k candidates, keep
\* the best k that pass the threshold, no padding
SearchVec(name, k) ==
    FilterTake(name, indexes[name].metric,
               TopCandidates(indexes[name], PoolSize(k)), k)

\* one _search_vec call on a loaded index
RetrieverSearch(name, k) ==
    /\ rcalls < 1
    /\ rk' = k
    /\ rname' = name
    /\ rres' = SearchVec(name, k)
    /\ rcalls' = rcalls + 1
    /\ rpool' = TopCandidates(indexes[name], PoolSize(k))
    /\ UNCHANGED <<cacheVars, indexes, fanVars, dedupVars, auxVars>>

Metrics == {"IP", "L2"}

RECURSIVE SeqsUpTo(_, _)
\* the sequences over S of length at most n
SeqsUpTo(S, n) ==
    IF n = 0 THEN {<<>>}
    ELSE LET shorter == SeqsUpTo(S, n - 1)
         IN  shorter \cup {Append(q, x) : q \in shorter, x \in S}

EmptyIndex(metric) == [metric |-> metric, sims |-> <<>>]

InitRetrIdle ==
    /\ rk = 0
    /\ rname = "therapy"
    /\ rres = <<>>
    /\ rcalls = 0
    /\ rpool = <<>>

InitFanIdle ==
    /\ req = [q |-> "t1", idxs |-> <<>>, k |-> 0]
    /\ scPc = "idle"
    /\ task = <<>>
    /\ taskRes = <<>>
    /\ doneOrder = <<>>
    /\ output = <<>>
    /\ warnings = {}
    /\ scEmbeds = 0
    /\ scEnc = 0
    /\ scCount = 0
    /\ outputsSeen = {}

InitIndexesEmpty == indexes = [n \in KnownIndexes |-> EmptyIndex("IP")]

(* --------------------------- search_combined -------------------------- *)
\* search_combined calls made on one pipeline
MaxSearches == 2
\* largest index of the fan-out specification
MaxFanIndexSize == 2

\* similarities of the vectors of the fan-out specification's indexes
FanSims == {30, 60, 90}

RECURSIVE InsertByScore(_, _)
\* x goes behind every entry whose score is at least its own
InsertByScore(x, s) ==
    IF s = <<>> THEN <<x>>
    ELSE IF x.score > Head(s).score THEN <<x>> \o s
    ELSE <<Head(s)>> \o InsertByScore(x, Tail(s))

RECURSIVE StableSortDesc(_, _)
StableSortDesc(s, acc) ==
    IF s = <<>> THEN acc
    ELSE StableSortDesc(Tail(s), InsertByScore(Head(s), acc))

\* a merge that is not sorted
MergedUnsorted(s) == s

\* results.sort(key=score, reverse=True): Python's sort is stable
SortByScore(s) == StableSortDesc(s, <<>>)

\* a fan-out whose tasks run the text wrapper _search
SubmittedSearchText == "_search"

\* exe.submit(self._search_vec, query_vec, k, idx, meta, name)
Submitted == "_search_vec"

\* _embed(text) run in one step: [vec, cache, encoded]
EmbedNow(t) ==
    IF Lookup(MD5(t)) # NoVec
    THEN [vec |-> Lookup(MD5(t)), cache |-> cache, encoded |-> 0]
    ELSE LET v == NormalizeL2(Encode(t))
         IN  [vec |-> v, cache |-> StoreEntry(MD5(t), v), encoded |-> 1]

\* the task of an index: IndexNotFound for a name no index is loaded under
TaskFails(name) == name \notin KnownIndexes

\* the tasks are gathered as they complete
GatherAsCompleted == doneOrder

\* the order the task results are merged in: the order of the request
GatherOrder == [i \in 1..Len(req.idxs) |-> i]

\* a gather that gives up the whole call when one task has failed
ContributionAbort(i) ==
    IF \E j \in 1..Len(task) : task[j] = "failed" THEN <<>> ELSE taskRes[i]

\* what task i adds to the merge: nothing when it failed
Contribution(i) == IF task[i] = "ok" THEN taskRes[i] ELSE <<>>

RECURSIVE MergeIn(_)
MergeIn(order) ==
    IF order = <<>> THEN <<>>
    ELSE Contribution(Head(order)) \o MergeIn(Tail(order))

\* a request names each index once
NoRepeat(q) == \A i, j \in 1..Len(q) : i # j => q[i] # q[j]

Requests ==
    {q \in SeqsUpTo(IndexNames, Cardinality(IndexNames)) :
        q # <<>> /\ NoRepeat(q)}

\* search_combined(query_text, indexes, k_per_index), up to the fan-out:
\* query_vec = self._embed(query_text), then one task per requested index
SCStart(q, idxs, k) ==
    /\ scPc \in {"idle", "done"}
    /\ scCount < MaxSearches
    /\ scCount > 0 => (q = req.q /\ idxs = req.idxs /\ k = req.k)
    /\ LET e == EmbedNow(q)
       IN  /\ cache' = e.cache
           /\ encTotal' = [encTotal EXCEPT ![q] = @ + e.encoded]
           /\ scEnc' = e.encoded
           /\ fresh' = IF e.encoded = 1 THEN [fresh EXCEPT ![MD5(q)] = Convs]
                       ELSE fresh
    /\ scEmbeds' = 1
    /\ req' = [q |-> q, idxs |-> idxs, k |-> k]
    /\ task' = [i \in 1..Len(idxs) |-> "pending"]
    /\ taskRes' = [i \in 1..Len(idxs) |-> <<>>]
    /\ doneOrder' = <<>>
    /\ output' = <<>>
    /\ warnings' = {}
    /\ scPc' = "fanout"
    /\ UNCHANGED <<pc, txt, vec, convOf, turns, calls, outcomes, rets, encTurn,
                   encAtClear, wasCached, midClear, hitOld, retrVars, scCount,
                   outputsSeen, dedupVars, auxVars>>

\* one task of the pool runs to completion
SCTask(i) ==
    /\ scPc = "fanout"
    /\ i \in 1..Len(task)
    /\ task[i] = "pending"
    /\ IF TaskFails(req.idxs[i])
       THEN /\ task' = [task EXCEPT ![i] = "failed"]
            /\ UNCHANGED taskRes
       ELSE /\ task' = [task EXCEPT ![i] = "ok"]
            /\ taskRes' = [taskRes EXCEPT ![i] = SearchVec(req.idxs[i], req.k)]
    /\ IF Submitted = "_search"
       THEN LET e == EmbedNow(req.q)
            IN  /\ cache' = e.cache
                /\ encTotal' = [encTotal EXCEPT ![req.q] = @ + e.encoded]
                /\ scEnc' = scEnc + e.encoded
                /\ scEmbeds' = scEmbeds + 1
                /\ fresh' = IF e.encoded = 1
                            THEN [fresh EXCEPT ![MD5(req.q)] = Convs]
                            ELSE fresh
       ELSE UNCHANGED <<cache, encTotal, scEnc, scEmbeds, fresh>>
    /\ doneOrder' = Append(doneOrder, i)
    /\ UNCHANGED <<pc, txt, vec, convOf, turns, calls, outcomes, rets, encTurn,
                   encAtClear, wasCached, midClear, hitOld, retrVars, req,
                   scPc, output, warnings,
                   scCount, outputsSeen, dedupVars, auxVars>>

\* a gather that returns as soon as one task has finished
SCGatherEarly ==
    /\ scPc = "fanout"
    /\ \E i \in 1..Len(task) : task[i] # "pending"
    /\ output' = SortByScore(MergeIn(GatherOrder))
    /\ warnings' = {req.idxs[i] : i \in {j \in 1..Len(task) : task[j] = "failed"}}
    /\ scPc' = "done"
    /\ scCount' = scCount + 1
    /\ outputsSeen' = outputsSeen \cup {output'}
    /\ UNCHANGED <<cacheVars, retrVars, req, task, taskRes, doneOrder, scEmbeds,
                   scEnc, dedupVars, auxVars>>

\* every task has finished: merge, sort, warn, return
SCGather ==
    /\ scPc = "fanout"
    /\ \A i \in 1..Len(task) : task[i] # "pending"
    /\ output' = SortByScore(MergeIn(GatherOrder))
    /\ warnings' = {req.idxs[i] : i \in {j \in 1..Len(task) : task[j] = "failed"}}
    /\ scPc' = "done"
    /\ scCount' = scCount + 1
    /\ outputsSeen' = outputsSeen \cup {output'}
    /\ UNCHANGED <<cacheVars, retrVars, req, task, taskRes, doneOrder, scEmbeds,
                   scEnc, dedupVars, auxVars>>

\* the non-increasing sequences over S of length at most n
SortedSeqs(S, n) ==
    {q \in SeqsUpTo(S, n) : \A i \in 1..(Len(q) - 1) : q[i] >= q[i + 1]}

(* ------------- deduplicate_snippets and the therapist agent ----------- *)
\* longest snippet list
MaxSnippets == 3

\* "compares the first 60 characters of each snippet as a proximity key"
KEY_CHARS == 60

\* per-snippet truncation of the passage text: 300 characters
SNIPPET_CHARS == 300

\* the per-snippet truncation before the change
OLD_SNIPPET_CHARS == 350

\* deduplicate_snippets(snippets, max_chars=2000)
MAX_CHARS == 2000

\* A string is its run-length encoding: a sequence of runs [ch, n], n >= 1,
\* neighbouring runs of different characters.
Run(ch, n) == [ch |-> ch, n |-> n]

RECURSIVE StrLen(_)
\* len(s)
StrLen(s) == IF s = <<>> THEN 0 ELSE Head(s).n + StrLen(Tail(s))

RECURSIVE Take(_, _)
\* s[:n]
Take(s, n) ==
    IF s = <<>> \/ n <= 0 THEN <<>>
    ELSE IF Head(s).n >= n THEN <<Run(Head(s).ch, n)>>
    ELSE <<Head(s)>> \o Take(Tail(s), n - Head(s).n)

\* a + b
Concat(a, b) ==
    IF a = <<>> THEN b
    ELSE IF b = <<>> THEN a
    ELSE IF a[Len(a)].ch = Head(b).ch
         THEN SubSeq(a, 1, Len(a) - 1)
              \o <<Run(Head(b).ch, a[Len(a)].n + Head(b).n)>> \o Tail(b)
         ELSE a \o b

\* a key that is the whole snippet
WholeKey(s) == s

\* the proximity key of a snippet
PrefixKey(s) == Take(s, KEY_CHARS)

\* the budget test "(total >= max_chars)", made before the snippet is added
BudgetReached(total, s, maxChars) == total >= maxChars

\* the budget test: appending s would take the total over max_chars
BudgetStops(total, s, maxChars) == total + StrLen(s) > maxChars

RECURSIVE DedupSkipFrom(_, _, _, _, _)
\* a loop that skips the snippet that does not fit and goes on
DedupSkipFrom(rest, seen, total, out, maxChars) ==
    IF rest = <<>> THEN out
    ELSE IF PrefixKey(Head(rest)) \in seen
         THEN DedupSkipFrom(Tail(rest), seen, total, out, maxChars)
    ELSE IF BudgetStops(total, Head(rest), maxChars)
         THEN DedupSkipFrom(Tail(rest), seen, total, out, maxChars)
    ELSE DedupSkipFrom(Tail(rest), seen \cup {PrefixKey(Head(rest))},
                       total + StrLen(Head(rest)), Append(out, Head(rest)), maxChars)

RECURSIVE DedupFrom(_, _, _, _, _)
DedupFrom(rest, seen, total, out, maxChars) ==
    IF rest = <<>> THEN out
    ELSE IF PrefixKey(Head(rest)) \in seen
         THEN DedupFrom(Tail(rest), seen, total, out, maxChars)
    ELSE IF BudgetStops(total, Head(rest), maxChars) THEN out
    ELSE DedupFrom(Tail(rest), seen \cup {PrefixKey(Head(rest))},
                   total + StrLen(Head(rest)), Append(out, Head(rest)), maxChars)

\* deduplicate_snippets(snippets, max_chars)
DeduplicateSnippets(snips, maxChars) == DedupFrom(snips, {}, 0, <<>>, maxChars)

\* the truncation of the code before the change: txt[:350]
TruncateTextOld(t) == Take(t, OLD_SNIPPET_CHARS)

\* txt[:300]
TruncateText(t) == Take(t, SNIPPET_CHARS)

\* the readable tags of _SOURCE_TAG_MAP used here, with their lengths
Tags == {"MI Technique", "WHO Guideline"}

TagLen(tag) == IF tag = "MI Technique" THEN 12 ELSE 13

\* "- [" + tag + "] "
TagPrefix(tag) == <<Run(tag, TagLen(tag) + 5)>>

\* f"- [{tag}] {txt[:300]}"
RawSnippet(meta) == Concat(TagPrefix(meta.tag), TruncateText(meta.txt))

\* the snippets deduplicate_snippets is tried on
SnippetPool ==
    { <<Run("a", 60), Run("b", 240)>>,
      <<Run("a", 60), Run("c", 10)>>,
      <<Run("a", 59), Run("c", 11)>>,
      <<Run("b", 301)>>,
      <<Run("c", 40)>>,
      <<Run("d", 2001)>> }

\* the max_chars deduplicate_snippets is tried with
BudgetPool == {0, 300, 370, MAX_CHARS}

\* the passages a search hands to the therapist agent
PassagePool ==
    { <<Run("x", 350)>>, <<Run("x", 300), Run("y", 50)>>, <<Run("y", 100)>>,
      <<Run("z", 299)>> }

MetaPool == [tag : Tags, txt : PassagePool]

\* deduplicate_snippets called on a list
DedupCall(snips, maxChars) ==
    /\ dDone = "none"
    /\ dIn' = snips
    /\ dMax' = maxChars
    /\ dOut' = DeduplicateSnippets(snips, maxChars)
    /\ dDone' = "dedup"
    /\ UNCHANGED <<cacheVars, retrVars, fanVars, auxVars>>

\* _get_therapist_rag_snippets on the metadata of the results: builds the
\* raw snippets, then deduplicate_snippets(raw_snippets, max_chars=2000)
GetTherapistRagSnippets(metas) ==
    /\ dDone = "none"
    /\ dIn' = [i \in 1..Len(metas) |-> RawSnippet(metas[i])]
    /\ dMax' = MAX_CHARS
    /\ dOut' = DeduplicateSnippets(dIn', MAX_CHARS)
    /\ dDone' = "agent"
    /\ UNCHANGED <<cacheVars, retrVars, fanVars, auxVars>>

InitDedupIdle ==
    /\ dIn = <<>>
    /\ dMax = 0
    /\ dOut = <<>>
    /\ dDone = "none"

(* ------------------------------ dynamic_k ----------------------------- *)
\* a word of the texts: two letters, two runs
Word == <<Run("a", 2), Run("b", 1)>>

\* the words of a text of n words with gap blanks between them: the runs
\* a, b, blank, a, b, blank, ..., a, b
WordsOf(n, gap) ==
    [i \in 1..(IF n = 0 THEN 0 ELSE 3 * n - 1) |->
        IF i % 3 = 1 THEN Word[1]
        ELSE IF i % 3 = 2 THEN Word[2]
        ELSE Run(" ", gap)]

\* a text of n words, gap blanks between them and lead blanks in front
TextOf(n, gap, lead) ==
    (IF lead > 0 THEN <<Run(" ", lead)>> ELSE <<>>) \o WordsOf(n, gap)

\* the runs of s that start a word: those that are no blanks and follow
\* a run of blanks or nothing
WordStarts(s) ==
    {i \in 1..Len(s) : s[i].ch # " " /\ (i = 1 \/ s[i - 1].ch = " ")}

\* len(text.split())
WordCount(s) == Cardinality(WordStarts(s))

\* a dynamic_k that wants the risk above 0.80
DynamicKRiskAbove(text, risk) ==
    IF WordCount(text) > 60 \/ risk > 80 THEN 7
    ELSE IF WordCount(text) >= 30 THEN 5
    ELSE 3

\* dynamic_k(text, risk_score): 7 for more than 60 words or risk >= 0.80,
\* 5 for 30-60 words, 3 otherwise
DynamicK(text, risk) ==
    IF WordCount(text) > 60 \/ risk >= 80 THEN 7
    ELSE IF WordCount(text) >= 30 THEN 5
    ELSE 3

\* the word counts, blanks and risk scores dynamic_k is tried on
WordCounts == {0, 1, 2, 10, 29, 30, 31, 45, 59, 60, 61, 62}

Gaps == {1, 2}

Leads == {0, 1}

RiskScores == {0, 10, 79, 80, 81, 95, 100}

\* one dynamic_k call
DynamicKCall(n, gap, lead, risk) ==
    /\ ~kDone
    /\ kText' = TextOf(n, gap, lead)
    /\ kWords' = n
    /\ kRisk' = risk
    /\ kRes' = DynamicK(kText', risk)
    /\ kDone' = TRUE
    /\ UNCHANGED exceptK

InitKIdle ==
    /\ kText = <<>>
    /\ kWords = 0
    /\ kRisk = 0
    /\ kRes = 0
    /\ kDone = FALSE

(* --------------------------- collection load ------------------------- *)
MaxRecords == 2

\* the source texts a vector or a metadata record is derived from
SourceTexts == {"kaggle", "defensive", "avoidant"}

NoHit == [id |-> 0, rec |-> "none"]

NoRecord == "missing"

\* the files of a collection: any index file with any metadata file
IndexFiles == SeqsUpTo(SourceTexts, MaxRecords)

MetadataFiles == SeqsUpTo(SourceTexts, MaxRecords)

\* _load_index and _load_metadata: each reads its own file and logs what
\* it read; the two are not compared
LoadCollection(vs, ms) ==
    /\ ldState = "none"
    /\ ldVecs' = vs
    /\ ldMeta' = ms
    /\ ldState' = "loaded"
    /\ UNCHANGED ldHit
    /\ UNCHANGED exceptLd

\* metadata[i] for the vector id i of a hit
RecordAt(i) == IF i <= Len(ldMeta) THEN ldMeta[i] ELSE NoRecord

\* a search on the loaded collection hits vector id i
ServeHit(i) ==
    /\ ldState = "loaded"
    /\ ldHit = NoHit
    /\ i \in 1..Len(ldVecs)
    /\ ldHit' = [id |-> i, rec |-> RecordAt(i)]
    /\ UNCHANGED <<ldVecs, ldMeta, ldState>>
    /\ UNCHANGED exceptLd

InitLdIdle ==
    /\ ldVecs = <<>>
    /\ ldMeta = <<>>
    /\ ldState = "none"
    /\ ldHit = NoHit

(* ------------------------------ frontend ------------------------------ *)
MaxVisits == 2

Null == "<null>"

StorageKeys == {"isLoggedIn", "rifd_user_id", "rifd_role", "rifd_session_id"}

Roles == {"user", "therapist", "admin"}

UserIds == {"u1"}

SessionIds == {"s1"}

\* a value JavaScript takes for false in a condition
Falsy(v) == v \in {Null, ""}

\* roles.js
GetCurrentRole == ls["rifd_role"]

GetCurrentUserId ==
    IF Falsy(ls["rifd_user_id"]) THEN "anon" ELSE ls["rifd_user_id"]

IsLoggedIn == ls["isLoggedIn"] = "true"

\* the allowedRoles arguments: left out, or an array of roles
Undefined == [given |-> FALSE, roles |-> {}]

Array(roles) == [given |-> TRUE, roles |-> roles]

AllowedArgs == {Undefined} \cup {Array(roles) : roles \in SUBSET Roles}

\* the condition of requireRole under which it assigns "../login.html"
RequireRoleRedirects(allowedRoles) ==
    \/ ~IsLoggedIn
    \/ Falsy(GetCurrentRole)
    \/ (allowedRoles.given /\ GetCurrentRole \notin allowedRoles.roles)

LoginPage == "../login.html"

Here == "<here>"

\* requireRole(allowedRoles): assigns the location and returns; the caller
\* goes on
RequireRole(allowedRoles) ==
    IF RequireRoleRedirects(allowedRoles) THEN LoginPage ELSE Here

\* apiGet / apiPost: the request fetch sends, who the user id it carries
Request(method, path, who) == [method |-> method, path |-> path, who |-> who]

NoOne == "-"

\* admin.js DOMContentLoaded, on a page holding the elements elems
AdminElements == {"stat-users", "user-table"}

AdminLoaded(elems) ==
    /\ wvisits < MaxVisits
    /\ wvisits' = wvisits + 1
    /\ wpage' = "admin"
    /\ wloc' = RequireRole(Array({"admin"}))
    /\ wreqs' = {Request("GET", "/api/admin/stats", NoOne) : e \in elems \cap {"stat-users"}}
                \cup {Request("GET", "/api/admin/users", NoOne) : e \in elems \cap {"user-table"}}
    /\ whandlers' = {"create-user" : e \in elems \cap {"user-table"}}
    /\ UNCHANGED <<ls, wLoggedOut>>
    /\ UNCHANGED exceptWeb

\* the click handler of the create button: needs email and password
AdminCreateUser(filled) ==
    /\ "create-user" \in whandlers
    /\ wloc = Here
    /\ Request("POST", "/api/admin/users", NoOne) \notin wreqs
    /\ wreqs' = IF filled
                THEN wreqs \cup {Request("POST", "/api/admin/users", NoOne)}
                ELSE wreqs
    /\ UNCHANGED <<ls, wpage, wloc, whandlers, wLoggedOut, wvisits>>
    /\ UNCHANGED exceptWeb

\* therapist.js DOMContentLoaded
TherapistElements ==
    {"schedule", "reports-table", "notifications", "therapist-feedback-form"}

TherapistLoaded(elems) ==
    /\ wvisits < MaxVisits
    /\ wvisits' = wvisits + 1
    /\ wpage' = "therapist"
    /\ wloc' = RequireRole(Array({"therapist"}))
    /\ wreqs' = {Request("GET", "/api/therapist/schedule", GetCurrentUserId) :
                     e \in elems \cap {"schedule"}}
                \cup {Request("GET", "/api/therapist/reports", GetCurrentUserId) :
                     e \in elems \cap {"reports-table"}}
                \cup {Request("GET", "/api/therapist/notifications", GetCurrentUserId) :
                     e \in elems \cap {"notifications"}}
    /\ whandlers' = {"therapist-feedback" : e \in elems \cap {"therapist-feedback-form"}}
    /\ UNCHANGED <<ls, wLoggedOut>>
    /\ UNCHANGED exceptWeb

\* the submit handler of the therapist feedback form
TherapistFeedback ==
    /\ "therapist-feedback" \in whandlers
    /\ wloc = Here
    /\ Request("POST", "/api/therapist/feedback", GetCurrentUserId) \notin wreqs
    /\ wreqs' = wreqs \cup {Request("POST", "/api/therapist/feedback", GetCurrentUserId)}
    /\ UNCHANGED <<ls, wpage, wloc, whandlers, wLoggedOut, wvisits>>
    /\ UNCHANGED exceptWeb

\* user.js DOMContentLoaded
UserElements == {"rating-buttons"}

UserLoaded(elems) ==
    /\ wvisits < MaxVisits
    /\ wvisits' = wvisits + 1
    /\ wpage' = "user"
    /\ wloc' = RequireRole(Array({"user"}))
    /\ wreqs' = {}
    /\ whandlers' = {"submit-feedback" : e \in elems \cap {"rating-buttons"}}
    /\ UNCHANGED <<ls, wLoggedOut>>
    /\ UNCHANGED exceptWeb

\* the click handler of the submit button: needs a selected rating
UserFeedback(rated) ==
    /\ "submit-feedback" \in whandlers
    /\ wloc = Here
    /\ Request("POST", "/api/user/feedback", GetCurrentUserId) \notin wreqs
    /\ wreqs' = IF rated
                THEN wreqs \cup {Request("POST", "/api/user/feedback", GetCurrentUserId)}
                ELSE wreqs
    /\ UNCHANGED <<ls, wpage, wloc, whandlers, wLoggedOut, wvisits>>
    /\ UNCHANGED exceptWeb

\* auth.js DOMContentLoaded: a logged-in visitor gets the logout button
AuthLoaded ==
    /\ wvisits < MaxVisits
    /\ wvisits' = wvisits + 1
    /\ wpage' = "auth"
    /\ wloc' = Here
    /\ wreqs' = {}
    /\ whandlers' = IF ls["isLoggedIn"] = "true" THEN {"logout"} ELSE {}
    /\ UNCHANGED <<ls, wLoggedOut>>
    /\ UNCHANGED exceptWeb

\* a logout that leaves the role behind
LogoutKeepsRole ==
    /\ "logout" \in whandlers
    /\ wloc = Here
    /\ ls' = [k \in StorageKeys |-> IF k = "rifd_role" THEN ls[k] ELSE Null]
    /\ wloc' = "index.html"
    /\ wLoggedOut' = TRUE
    /\ UNCHANGED <<wpage, wreqs, whandlers, wvisits>>
    /\ UNCHANGED exceptWeb

\* the click handler of the logout button
LogoutClick ==
    /\ "logout" \in whandlers
    /\ wloc = Here
    /\ ls' = [k \in StorageKeys |-> Null]
    /\ wloc' = "index.html"
    /\ wLoggedOut' = TRUE
    /\ UNCHANGED <<wpage, wreqs, whandlers, wvisits>>
    /\ UNCHANGED exceptWeb

\* what localStorage may hold when a page is opened
Storages ==
    {[k \in StorageKeys |->
        CASE k = "isLoggedIn" -> li
          [] k = "rifd_user_id" -> uid
          [] k = "rifd_role" -> role
          [] OTHER -> sid] :
     li \in {Null, "true"}, uid \in UserIds \cup {Null},
     role \in Roles \cup {Null}, sid \in SessionIds \cup {Null}}

\* no page opened yet
InitNoPage ==
    /\ wpage = "none"
    /\ wloc = Here
    /\ wreqs = {}
    /\ whandlers = {}
    /\ wLoggedOut = FALSE
    /\ wvisits = 0

InitWebIdle ==
    /\ ls = [k \in StorageKeys |-> Null]
    /\ InitNoPage

InitAuxIdle == InitKIdle /\ InitLdIdle /\ InitWebIdle

(* ------------------------- cache specifications ----------------------- *)
InitCacheVars(assign) ==
    /\ cache = EmptyCache
    /\ pc = [c \in Callers |-> "idle"]
    /\ txt = [c \in Callers |-> "t1"]
    /\ vec = [c \in Callers |-> NoVec]
    /\ convOf = assign
    /\ turns = [v \in Convs |-> 0]
    /\ calls = [v \in Convs |-> [t \in Texts |-> 0]]
    /\ outcomes = [v \in Convs |-> [t \in Texts |-> <<>>]]
    /\ rets = [v \in Convs |-> [t \in Texts |-> {}]]
    /\ encTurn = [v \in Convs |-> [t \in Texts |-> 0]]
    /\ encTotal = [t \in Texts |-> 0]
    /\ encAtClear = [v \in Convs |-> [t \in Texts |-> 0]]
    /\ wasCached = [v \in Convs |-> {}]
    /\ fresh = [k \in Keys |-> {}]
    /\ midClear = [v \in Convs |-> "no"]
    /\ hitOld = [v \in Convs |-> FALSE]

InitCache(assign) ==
    /\ InitCacheVars(assign)
    /\ InitIndexesEmpty
    /\ InitRetrIdle
    /\ InitFanIdle
    /\ InitDedupIdle
    /\ InitAuxIdle

\* one conversation: every caller is an agent of conversation 1
OneConversation == [c \in Callers |-> 1]

\* one conversation per caller, all on the shared rag_pipeline_instance
OwnConversation == [c \in Callers |-> c]

\* Sequential use within one conversation: a call starts when none is running.
InitSeq == InitCache(OneConversation)

SeqHit == \E c \in Callers, t \in Texts : AllIdle /\ EmbedHit(c, t)

SeqMiss == \E c \in Callers, t \in Texts : AllIdle /\ EmbedMiss(c, t)

SeqEncode == \E c \in Callers : EmbedEncode(c)

SeqStore == \E c \in Callers : EmbedStore(c)

SeqRouter == AllIdle /\ RouterNode(1)

NextSeq == SeqHit \/ SeqMiss \/ SeqEncode \/ SeqStore \/ SeqRouter

SpecSeq == InitSeq /\ [][NextSeq]_vars

\* Concurrent callers within one turn of one conversation.
ConcHit == \E c \in Callers, t \in Texts : EmbedHit(c, t)

ConcMiss == \E c \in Callers, t \in Texts : EmbedMiss(c, t)

NextConc == ConcHit \/ ConcMiss \/ SeqEncode \/ SeqStore \/ SeqRouter

SpecConc == InitSeq /\ [][NextConc]_vars

\* Concurrent conversations on the shared instance.
InitConv == InitCache(OwnConversation)

\* the conversations send the same text
ConvTexts == {"t1"}

ConvHit == \E c \in Callers, t \in ConvTexts : EmbedHit(c, t)

ConvMiss == \E c \in Callers, t \in ConvTexts : EmbedMiss(c, t)

ConvRouter == \E v \in Convs : RouterNode(v)

NextConv == ConvHit \/ ConvMiss \/ SeqEncode \/ SeqStore \/ ConvRouter

SpecConv == InitConv /\ [][NextConv]_vars

\* Single-index search on one loaded index of any content and metric.
InitRetr ==
    /\ InitCacheVars(OneConversation)
    /\ InitRetrIdle
    /\ InitFanIdle
    /\ InitDedupIdle
    /\ InitAuxIdle
    /\ \E m \in Metrics, ss \in SeqsUpTo(SimValues, MaxIndexSize) :
          indexes = [n \in KnownIndexes |->
                        IF n = "therapy" THEN [metric |-> m, sims |-> ss]
                        ELSE EmptyIndex("IP")]

RetrSearch == \E k \in 1..MaxK : RetrieverSearch("therapy", k)

NextRetr == RetrSearch

SpecRetr == InitRetr /\ [][NextRetr]_vars

\* search_combined over the loaded indexes: "therapy" rebuilt as IndexFlatIP,
\* "therapist" still an IndexFlatL2 file.
InitFan ==
    /\ InitCacheVars(OneConversation)
    /\ InitRetrIdle
    /\ InitFanIdle
    /\ InitDedupIdle
    /\ InitAuxIdle
    /\ \E a \in SortedSeqs(FanSims, MaxFanIndexSize),
          b \in SortedSeqs(FanSims, MaxFanIndexSize) :
          indexes = [n \in KnownIndexes |->
                        IF n = "therapy" THEN [metric |-> "IP", sims |-> a]
                        ELSE [metric |-> "L2", sims |-> b]]

\* the k_per_index of the fan-out specification
FanKs == {1, 2}

FanStart == \E q \in {"t1"}, idxs \in Requests, k \in FanKs : SCStart(q, idxs, k)

FanTask == \E i \in 1..Cardinality(IndexNames) : SCTask(i)

NextFan == FanStart \/ FanTask \/ SCGather

SpecFan == InitFan /\ [][NextFan]_vars

\* deduplicate_snippets on lists of snippets, directly and from the agent.
InitDedup == InitCache(OneConversation)

DedupDirect ==
    \E snips \in SeqsUpTo(SnippetPool, MaxSnippets), m \in BudgetPool :
        DedupCall(snips, m)

DedupAgent ==
    \E metas \in SeqsUpTo(MetaPool, MaxSnippets) : GetTherapistRagSnippets(metas)

NextDedup == DedupDirect \/ DedupAgent

SpecDedup == InitDedup /\ [][NextDedup]_vars

\* dynamic_k on texts and risk scores.
NextK ==
    \E n \in WordCounts, gap \in Gaps, lead \in Leads, risk \in RiskScores :
        DynamicKCall(n, gap, lead, risk)

SpecK == InitSeq /\ [][NextK]_vars

\* a collection is loaded from its two files and searched.
NextLoad ==
    \/ \E vs \in IndexFiles, ms \in MetadataFiles : LoadCollection(vs, ms)
    \/ \E i \in 1..MaxRecords : ServeHit(i)

SpecLoad == InitSeq /\ [][NextLoad]_vars

\* pages are opened in a browser whose localStorage holds any login state.
InitWeb ==
    /\ InitCacheVars(OneConversation)
    /\ InitIndexesEmpty
    /\ InitRetrIdle
    /\ InitFanIdle
    /\ InitDedupIdle
    /\ InitKIdle
    /\ InitLdIdle
    /\ ls \in Storages
    /\ InitNoPage

NextWeb ==
    \/ \E elems \in SUBSET AdminElements : AdminLoaded(elems)
    \/ \E filled \in BOOLEAN : AdminCreateUser(filled)
    \/ \E elems \in SUBSET TherapistElements : TherapistLoaded(elems)
    \/ TherapistFeedback
    \/ \E elems \in SUBSET UserElements : UserLoaded(elems)
    \/ \E rated \in BOOLEAN : UserFeedback(rated)
    \/ AuthLoaded
    \/ LogoutClick

SpecWeb == InitWeb /\ [][NextWeb]_vars

(* ------------------------ claims on the cache ------------------------- *)
\* C1: within one turn, sequential embed(text) calls invoke the encoder
\* exactly once for the text (the first call misses, encodes and stores,
\* every later call hits) and all of them return the identical vector.
C1_EmbedOncePerTurn ==
    \A t \in Texts :
        /\ encTurn[1][t] <= 1
        /\ outcomes[1][t] # <<>> =>
            /\ Head(outcomes[1][t]) = "miss"
            /\ \A i \in 2..Len(outcomes[1][t]) : outcomes[1][t][i] = "hit"
            /\ encTurn[1][t] = 1
            /\ Cardinality(rets[1][t]) = 1

C1_Witness == \E t \in Texts : Len(outcomes[1][t]) >= 2

\* C2: right after clear_turn_cache the cache is empty, and the first
\* embed(text) of the new turn for a text that was cached before the clear
\* is a miss that raises the encoder call counter by one.
C2_RecomputeAfterClear ==
    /\ (turns[1] >= 1 /\ \A t \in Texts : calls[1][t] = 0) => cache = EmptyCache
    /\ \A t \in Texts :
        (MD5(t) \in wasCached[1] /\ outcomes[1][t] # <<>>) =>
            /\ Head(outcomes[1][t]) = "miss"
            /\ encTotal[t] = encAtClear[1][t] + 1

C2_Witness ==
    \E t \in Texts : MD5(t) \in wasCached[1] /\ outcomes[1][t] # <<>>

C4_ConversationsIsolated ==
    \A v \in Convs : \A t \in Texts : encTurn[v][t] <= 1

(* ----------------------- claims on _search_vec ------------------------ *)
\* C9: every entry _search_vec returns has a score strictly above the
\* threshold (a score equal to it is excluded), the list has at most k
\* entries, and when fewer than k candidates pass it is just shorter: it
\* holds every passing vector of the index and nothing else.
C9_ThresholdAndK ==
    rcalls >= 1 =>
        LET ix == indexes[rname]
            passing == {i \in 1..Len(ix.sims) : ix.sims[i] > IP_THRESHOLD}
        IN  /\ \A j \in 1..Len(rres) : rres[j].score > IP_THRESHOLD
            /\ \A j \in 1..Len(rres) :
                 /\ rres[j].id + 1 \in 1..Len(ix.sims)
                 /\ ix.sims[rres[j].id + 1] = rres[j].score
            /\ Len(rres) <= rk
            /\ Cardinality(passing) < rk => Len(rres) = Cardinality(passing)

C9_Witness ==
    /\ rcalls >= 1
    /\ Len(rres) < rk
    /\ Len(rres) >= 1
    /\ \E i \in 1..Len(indexes[rname].sims) : indexes[rname].sims[i] = IP_THRESHOLD

(* ---------------------- claims on search_combined --------------------- *)
\* C5: a search_combined call makes exactly one _embed call, whatever the
\* number of requested indexes (no task embeds the query again), so the
\* encoder is invoked at most once per call.
C5_EmbedOncePerSearch ==
    scPc \in {"fanout", "done"} => (scEmbeds = 1 /\ scEnc <= 1)

C5_Witness ==
    /\ scPc = "done"
    /\ Len(req.idxs) = Cardinality(IndexNames)
    /\ scEnc = 1

\* the entries of the output that come from index n, in output order
FromIndex(n) == SelectSeq(output, LAMBDA r : r.name = n)

\* C6: when the task of one requested index fails, the call still returns:
\* the failed index contributes nothing and a warning names it, and the
\* result of every other requested index is in the output unchanged,
\* whether its task finished before or after the failure.
C6_FailureIsolated ==
    scPc = "done" =>
        \A i \in 1..Len(req.idxs) :
            IF task[i] = "failed"
            THEN FromIndex(req.idxs[i]) = <<>> /\ req.idxs[i] \in warnings
            ELSE /\ FromIndex(req.idxs[i]) = SearchVec(req.idxs[i], req.k)
                 /\ req.idxs[i] \notin warnings

C6_Witness ==
    /\ scPc = "done"
    /\ Len(doneOrder) = 3
    /\ task[doneOrder[2]] = "failed"
    /\ taskRes[doneOrder[1]] # <<>>
    /\ taskRes[doneOrder[3]] # <<>>

\* position of index n in the request
ReqPos(n) == CHOOSE i \in 1..Len(req.idxs) : req.idxs[i] = n

\* rank of entry r in the result list of its index
RankOf(r) ==
    CHOOSE j \in 1..Len(taskRes[ReqPos(r.name)]) : taskRes[ReqPos(r.name)][j] = r

SumLens(i) ==
    LET RECURSIVE Go(_)
        Go(j) == IF j > Len(req.idxs) THEN 0 ELSE Len(Contribution(j)) + Go(j + 1)
    IN  Go(i)

\* C7: the returned list holds exactly the entries of the per-index result
\* lists, sorted by score descending, equal scores in the order of the
\* request and then of the rank within the index; A = [X 0.9, Y 0.3] and
\* B = [Z 0.6] give [X, Z, Y].
C7_MergedSortedStable ==
    scPc = "done" =>
        /\ Len(output) = SumLens(1)
        /\ \A i \in 1..Len(req.idxs) : \A j \in 1..Len(Contribution(i)) :
             \E m \in 1..Len(output) : output[m] = taskRes[i][j]
        /\ \A i, j \in 1..Len(output) :
             i < j =>
                /\ output[i].score >= output[j].score
                /\ output[i].score = output[j].score =>
                     \/ ReqPos(output[i].name) < ReqPos(output[j].name)
                     \/ /\ output[i].name = output[j].name
                        /\ RankOf(output[i]) < RankOf(output[j])
        /\ ( /\ indexes["therapy"].sims = <<90, 30>>
             /\ indexes["therapist"].sims = <<60>>
             /\ req.idxs = <<"therapy", "therapist">>
             /\ req.k = 2 )
           => output = << [name |-> "therapy", id |-> 0, score |-> 90],
                          [name |-> "therapist", id |-> 0, score |-> 60],
                          [name |-> "therapy", id |-> 1, score |-> 30] >>

C7_Witness ==
    /\ scPc = "done"
    /\ indexes["therapy"].sims = <<90, 30>>
    /\ indexes["therapist"].sims = <<60>>
    /\ req.idxs = <<"therapy", "therapist">>
    /\ req.k = 2
    /\ Len(output) = 3

\* C8: for a fixed query and fixed indexes the returned list is the same
\* under every order in which the tasks complete, equal scores from
\* different indexes included.
C8_ScheduleIndependent == Cardinality(outputsSeen) <= 1

C8_Witness ==
    /\ scPc = "done"
    /\ scCount >= 2
    /\ doneOrder # GatherOrder
    /\ \E i, j \in 1..Len(output) :
         /\ i < j
         /\ output[i].score = output[j].score
         /\ output[i].name # output[j].name

(* -------------------- claims on deduplicate_snippets ------------------ *)
RECURSIVE TotalLen(_)
TotalLen(list) == IF list = <<>> THEN 0 ELSE StrLen(Head(list)) + TotalLen(Tail(list))

\* C10 as stated: the returned snippets total at most maxChars characters,
\* also when the first snippet alone is longer than maxChars, and no
\* returned snippet is longer than the 300-character cap.
C10_BudgetAndCap ==
    dDone # "none" =>
        /\ TotalLen(dOut) <= dMax
        /\ \A i \in 1..Len(dOut) : StrLen(dOut[i]) <= SNIPPET_CHARS

\* C10 amended: the returned snippets total at most maxChars characters,
\* also when the first snippet alone is longer than maxChars (nothing is
\* returned then); deduplicate_snippets returns input snippets as they are
\* and caps none of them; the 300-character cap is applied by the therapist
\* agent to the passage text before the "- [tag] " prefix, so a snippet on
\* that path has at most 300 characters plus its prefix.
C10_BudgetAndCallerCap ==
    dDone # "none" =>
        /\ TotalLen(dOut) <= dMax
        /\ (dIn # <<>> /\ StrLen(dIn[1]) > dMax) => dOut = <<>>
        /\ \A i \in 1..Len(dOut) : \E j \in 1..Len(dIn) : dOut[i] = dIn[j]
        /\ dDone = "agent" =>
             \A i \in 1..Len(dOut) :
                \E tag \in Tags :
                    /\ Head(dOut[i]).ch = tag
                    /\ StrLen(dOut[i]) <= SNIPPET_CHARS + TagLen(tag) + 5

C10_Witness ==
    /\ dDone = "dedup"
    /\ dIn # <<>>
    /\ StrLen(dIn[1]) > dMax
    /\ dMax > 0
    /\ \E i \in 2..Len(dIn) : StrLen(dIn[i]) <= dMax

\* the first 60 characters of input snippet j
KeyAt(j) == Take(dIn[j], KEY_CHARS)

\* the inputs no earlier input shares its key with
Firsts == {j \in 1..Len(dIn) : \A i \in 1..(j - 1) : KeyAt(i) # KeyAt(j)}

\* C11: no two returned snippets have the same first 60 characters; of the
\* input snippets with a given key only the first in input order can be
\* returned.
C11_OnePerPrefixKey ==
    dDone # "none" =>
        /\ \A i, j \in 1..Len(dOut) :
             i # j => Take(dOut[i], KEY_CHARS) # Take(dOut[j], KEY_CHARS)
        /\ \A i \in 1..Len(dOut) : \E j \in Firsts : dOut[i] = dIn[j]

C11_Witness ==
    /\ dDone = "dedup"
    /\ \E i, j \in 1..Len(dIn) :
         /\ i < j
         /\ dIn[i] # dIn[j]
         /\ KeyAt(i) = KeyAt(j)
         /\ \E m \in 1..Len(dOut) : dOut[m] = dIn[i]

\* total length of the first occurrences before input j
FirstsLenBefore(j) ==
    LET RECURSIVE Go(_)
        Go(i) == IF i >= j THEN 0
                 ELSE (IF i \in Firsts THEN StrLen(dIn[i]) ELSE 0) + Go(i + 1)
    IN  Go(1)

\* the first occurrences that would take the running total over max_chars
Overflows == {j \in Firsts : FirstsLenBefore(j) + StrLen(dIn[j]) > dMax}

\* the input at which accumulation stops (past the end when none does)
StopAt ==
    IF Overflows = {} THEN Len(dIn) + 1
    ELSE CHOOSE j \in Overflows : \A i \in Overflows : j <= i

\* the inputs that are returned
Kept == {j \in Firsts : j < StopAt}

\* number of kept inputs up to j
KeptUpTo(j) == Cardinality({i \in Kept : i <= j})

\* C12: the returned snippets are, in input order, the first occurrences (by
\* prefix key) of the input, up to the first one that would take the running
\* total over maxChars: nothing after it is returned, even if it would fit.
C12_OrderAndStop ==
    dDone # "none" =>
        /\ Len(dOut) = Cardinality(Kept)
        /\ \A j \in Kept : dOut[KeptUpTo(j)] = dIn[j]

C12_Witness ==
    /\ dDone = "dedup"
    /\ Len(dOut) >= 1
    /\ StopAt < Len(dIn)
    /\ \E j \in Firsts :
         /\ j > StopAt
         /\ TotalLen(dOut) + StrLen(dIn[j]) <= dMax

(* -------------------------- claims on dynamic_k ----------------------- *)
\* C13: dynamic_k returns 7 when the text has more than 60 words or the risk
\* score is at least 0.80, 5 when it has 30 to 60 words and the risk score
\* is below 0.80, and 3 otherwise: 61 words at 0.1 give 7, 45 words at 0.79
\* give 5, 10 words at 0.95 give 7 and 2 words at 0.1 give 3.
C13_DynamicKTable ==
    kDone =>
        /\ kRes \in {3, 5, 7}
        /\ (kWords > 60 \/ kRisk >= 80) => kRes = 7
        /\ (kWords >= 30 /\ kWords <= 60 /\ kRisk < 80) => kRes = 5
        /\ (kWords < 30 /\ kRisk < 80) => kRes = 3
        /\ (kWords = 61 /\ kRisk = 10) => kRes = 7
        /\ (kWords = 45 /\ kRisk = 79) => kRes = 5
        /\ (kWords = 10 /\ kRisk = 95) => kRes = 7
        /\ (kWords = 2 /\ kRisk = 10) => kRes = 3

C13_Witness == kDone /\ kWords = 45 /\ kRisk = 79 /\ kRes = 5

(* ----------------------- claims on collection load -------------------- *)
\* C14: a collection whose index file has n vectors and whose metadata
\* file has m records, n # m, is not loaded, and no result is served that
\* pairs a vector id with a missing or another text's metadata record.
C14_MismatchFailsLoad ==
    /\ ldState = "loaded" => Len(ldVecs) = Len(ldMeta)
    /\ ldHit # NoHit => ldHit.rec = ldVecs[ldHit.id]

(* ---------------------- claims on the index metric -------------------- *)
\* the searched index with the same unit vectors under the other metric
TwinIndex ==
    [indexes[rname] EXCEPT !.metric = IF @ = "IP" THEN "L2" ELSE "IP"]

\* _search_vec on the twin
TwinResult ==
    FilterTake(rname, TwinIndex.metric, TopCandidates(TwinIndex, 3 * rk), rk)

GuardOf(page) == {page}

GuardedPages == {"admin", "therapist", "user"}

\* C16: on a page guarded by requireRole(allowedRoles), a visitor who is
\* not logged in or whose role is not allowed is sent to login.html, and
\* the page's init functions do not run for them: no API request is issued
\* and no handler registered.
C16_GuardedPagesOnly ==
    (wpage \in GuardedPages /\ ~(IsLoggedIn /\ GetCurrentRole \in GuardOf(wpage))) =>
        /\ wloc = LoginPage
        /\ wreqs = {}
        /\ whandlers = {}

\* C20: once the logout handler has run, isLoggedIn() is false,
\* getCurrentRole() is null, getCurrentUserId() is 'anon', requireRole
\* redirects to the login page whatever allowedRoles it is given, and a
\* guarded page opened afterwards is sent to the login page.
C20_LoggedOutIsAnon ==
    wLoggedOut =>
        /\ ~IsLoggedIn
        /\ GetCurrentRole = Null
        /\ GetCurrentUserId = "anon"
        /\ \A allowedRoles \in AllowedArgs : RequireRoleRedirects(allowedRoles)
        /\ wpage \in GuardedPages => wloc = LoginPage

C20_Witness == wLoggedOut /\ wpage = "admin" /\ wloc = LoginPage

(* --------------------- claims on the fan-out and pool ----------------- *)
\* C17: search_combined starts one task per requested index, each task
\* runs once, the call returns only when every task has finished, every
\* result of a task that succeeded is in the output, and the output has at
\* most (number of indexes) x k_per_index entries.
C17_OneTaskEachAllJoined ==
    /\ scPc \in {"fanout", "done"} =>
         /\ Len(task) = Len(req.idxs)
         /\ \A i, j \in 1..Len(doneOrder) : i # j => doneOrder[i] # doneOrder[j]
         /\ \A i \in 1..Len(task) :
              task[i] # "pending" <=> \E j \in 1..Len(doneOrder) : doneOrder[j] = i
    /\ scPc = "done" =>
         /\ \A i \in 1..Len(task) : task[i] # "pending"
         /\ \A i \in 1..Len(task) :
              task[i] = "ok" =>
                  \A n \in 1..Len(taskRes[i]) :
                      \E m \in 1..Len(output) : output[m] = taskRes[i][n]
         /\ Len(output) <= Len(req.idxs) * req.k

C17_Witness ==
    /\ scPc = "done"
    /\ Len(req.idxs) = 2
    /\ req.k = 2
    /\ Len(output) = 4

\* the slots of the fetched pool that hold a vector, and the similarity of
\* the vector in slot j
RealSlots == {j \in 1..Len(rpool) : rpool[j].id >= 0}

PoolSim(j) == indexes[rname].sims[rpool[j].id + 1]

PassingSlots == {j \in RealSlots : PoolSim(j) > IP_THRESHOLD}

Smaller(a, b) == IF a <= b THEN a ELSE b

\* the slot of the pool a returned entry comes from
SlotOf(m) == CHOOSE j \in RealSlots : rpool[j].id = rres[m].id

\* C18: _search_vec fetches once a pool holding the min(3k, index size)
\* best vectors of the index and returns, by descending score, the k best
\* of the pool that pass the threshold (all of them when fewer than k
\* pass); an entry from below position k of the pool is returned only if
\* fewer than k of the slots above it pass.
C18_BestKOfPool ==
    rcalls >= 1 =>
        LET ix == indexes[rname]
            n == Len(ix.sims)
            inPool == {rpool[j].id + 1 : j \in RealSlots}
        IN  /\ Cardinality(RealSlots) = Smaller(3 * rk, n)
            /\ Cardinality(inPool) = Cardinality(RealSlots)
            /\ \A i \in (1..n) \ inPool : \A j \in RealSlots : ix.sims[i] <= PoolSim(j)
            /\ \A a, b \in 1..Len(rres) : a < b => rres[a].score >= rres[b].score
            /\ \A m \in 1..Len(rres) : rres[m].id + 1 \in inPool
            /\ \A a, b \in 1..Len(rres) : a # b => rres[a].id # rres[b].id
            /\ Len(rres) = Smaller(rk, Cardinality(PassingSlots))
            /\ \A m \in 1..Len(rres) : SlotOf(m) \in PassingSlots
            /\ \A j \in PassingSlots :
                 (\A m \in 1..Len(rres) : rres[m].id # rpool[j].id) =>
                     \A m \in 1..Len(rres) : rres[m].score >= PoolSim(j)
            /\ \A m \in 1..Len(rres) :
                 SlotOf(m) > rk =>
                     Cardinality({j \in PassingSlots : j < SlotOf(m)}) < rk

C18_Witness ==
    /\ rcalls >= 1
    /\ rk = 1
    /\ Len(indexes[rname].sims) = 4
    /\ Cardinality(RealSlots) = 3
    /\ Len(rres) = 1
    /\ Cardinality(PassingSlots) = 2

(* ------------------------ claims on the turn -------------------------- *)
\* C19: in every turn the cache is cleared once, by router_node, before the
\* turn's first _embed call: no _embed call of a conversation comes before
\* its router_node, the cache is not cleared between two _embed calls of
\* one turn, and no _embed call hits an entry written before its turn
\* began.
C19_ClearOnceBeforeEmbeds ==
    \A v \in Convs :
        /\ HasEmbedded(v) => turns[v] >= 1
        /\ midClear[v] # "embedded"
        /\ ~hitOld[v]

====
